---- MODULE Spec2Model ----
(***************************************************************************)
(* Connect-4 engine of connect4.py: board primitives, terminal detection,  *)
(* the windowed heuristic, the transposition table and the alpha-beta      *)
(* minimax, together with the two game loops that drive them               *)
(* (connect4.play_game and benchmark.play_game).                           *)
(*                                                                         *)
(* A board is the list of its 42 cells in row-major order: board[r][c] of  *)
(* the source is board[Idx(r, c)] here, row 0 being the top row.           *)
(* float('inf') is the integer Inf, larger than any heuristic score (69    *)
(* windows of at most 100 each plus 6 centre cells of 6 each).             *)
(***************************************************************************)
EXTENDS Integers, Sequences, FiniteSets, TLC

ROWS == 6
COLS == 7
PLAYER == "O"
AI == "X"
EMPTY == "_"
OPENING_BOOK == <<3, 2, 4, 1, 5, 0, 6>>

Inf == 1000000
None == -1

Idx(r, c) == r * COLS + c + 1

Max(a, b) == IF a >= b THEN a ELSE b
Min(a, b) == IF a <= b THEN a ELSE b
Abs(a) == IF a < 0 THEN -a ELSE a

EmptyBoard == [i \in 1..(ROWS * COLS) |-> EMPTY]

is_valid(board, col) == col >= 0 /\ col <= 6 /\ board[Idx(0, col)] = EMPTY

\* Faulty variant of get_next_open_row: the column scanned from the top
\* (range(ROWS)), so that the piece lands on the highest empty cell.
get_next_open_row_FromTop(board, col) ==
    LET open == {r \in 0..(ROWS - 1) : board[Idx(r, col)] = EMPTY}
    IN  IF open = {} THEN None ELSE CHOOSE r \in open : \A q \in open : r <= q

\* for row in range(ROWS - 1, -1, -1): the first empty cell from the bottom;
\* the loop falls through (returns None) on a full column.
get_next_open_row(board, col) ==
    LET open == {r \in 0..(ROWS - 1) : board[Idx(r, col)] = EMPTY}
    IN  IF open = {} THEN None ELSE CHOOSE r \in open : \A q \in open : q <= r

set_piece(board, row, col, piece) == [board EXCEPT ![Idx(row, col)] = piece]

\* The four families of 4-cell windows scanned by winning_move and score_position.
HorizWindows ==
    [k \in 1..(ROWS * (COLS - 3)) |->
        LET r == (k - 1) \div (COLS - 3)
            c == (k - 1) % (COLS - 3)
        IN  [i \in 1..4 |-> Idx(r, c + i - 1)]]

VertWindows ==
    [k \in 1..(COLS * (ROWS - 3)) |->
        LET c == (k - 1) \div (ROWS - 3)
            r == (k - 1) % (ROWS - 3)
        IN  [i \in 1..4 |-> Idx(r + i - 1, c)]]

DiagWindows ==
    [k \in 1..((ROWS - 3) * (COLS - 3)) |->
        LET r == (k - 1) \div (COLS - 3)
            c == (k - 1) % (COLS - 3)
        IN  [i \in 1..4 |-> Idx(r + i - 1, c + i - 1)]]

AntiDiagWindows ==
    [k \in 1..((ROWS - 3) * (COLS - 3)) |->
        LET r == (k - 1) \div (COLS - 3)
            c == (k - 1) % (COLS - 3)
        IN  [i \in 1..4 |-> Idx(r + 3 - (i - 1), c + i - 1)]]

AllWindows == HorizWindows \o VertWindows \o DiagWindows \o AntiDiagWindows

winning_move(board, piece) ==
    \E k \in 1..Len(AllWindows) :
        \A i \in 1..4 : board[AllWindows[k][i]] = piece

get_valid_locations(board) ==
    LET ok == {c \in 0..(COLS - 1) : is_valid(board, c)}
        \* the k-th valid column in ascending order
        nth(k) == CHOOSE c \in ok : Cardinality({x \in ok : x < c}) = k - 1
    IN  [k \in 1..Cardinality(ok) |-> nth(k)]

is_terminal(board) ==
    \/ winning_move(board, PLAYER)
    \/ winning_move(board, AI)
    \/ Len(get_valid_locations(board)) = 0

\* window.count(x) over the four cells of window w of the board
Count(board, w, x) ==
    (IF board[w[1]] = x THEN 1 ELSE 0) + (IF board[w[2]] = x THEN 1 ELSE 0)
    + (IF board[w[3]] = x THEN 1 ELSE 0) + (IF board[w[4]] = x THEN 1 ELSE 0)

evaluation(board, w, piece) ==
    LET opp_piece == IF piece = AI THEN PLAYER ELSE AI
        np == Count(board, w, piece)
        ne == Count(board, w, EMPTY)
        no == Count(board, w, opp_piece)
        own == IF np = 4 THEN 100
               ELSE IF np = 3 /\ ne = 1 THEN 10
               ELSE IF np = 2 /\ ne = 2 THEN 4
               ELSE 0
    IN  own - (IF no = 3 /\ ne = 1 THEN 8 ELSE 0)

\* sum of evaluation over windows lo..hi of AllWindows (score += evaluation(...))
RECURSIVE WindowSum(_, _, _, _)
WindowSum(board, piece, lo, hi) ==
    IF lo > hi THEN 0
    ELSE IF lo = hi THEN evaluation(board, AllWindows[lo], piece)
    ELSE LET mid == (lo + hi) \div 2
         IN  WindowSum(board, piece, lo, mid) + WindowSum(board, piece, mid + 1, hi)

score_position(board, piece) ==
    LET center_count == Cardinality({r \in 0..(ROWS - 1) : board[Idx(r, COLS \div 2)] = piece})
    IN  center_count * 6 + WindowSum(board, piece, 1, Len(AllWindows))

\* str(depth): the decimal digits of a non-negative integer
RECURSIVE DecStr(_)
DecStr(k) ==
    LET d == <<"0", "1", "2", "3", "4", "5", "6", "7", "8", "9">>
    IN  IF k < 10 THEN <<d[k + 1]>> ELSE DecStr(k \div 10) \o <<d[(k % 10) + 1]>>

\* Faulty variant of hash_board: the depth left out of the key
hash_board_BoardOnly(board, depth) == board

\* ''.join([''.join(row) for row in board]) + str(depth), as a list of characters
hash_board(board, depth) == board \o DecStr(depth)

\* valid_locations.sort(key=lambda c: abs(COLS // 2 - c)): a stable insertion of
\* each column, in ascending order, after every column that is at least as close
\* to the centre.
RECURSIVE SortCenter(_)
SortCenter(locs) ==
    IF Len(locs) = 0 THEN << >>
    ELSE LET rest == SortCenter(SubSeq(locs, 1, Len(locs) - 1))
             c == locs[Len(locs)]
             key(x) == Abs(COLS \div 2 - x)
             p == Cardinality({j \in 1..Len(rest) : key(rest[j]) <= key(c)})
         IN  SubSeq(rest, 1, p) \o <<c>> \o SubSeq(rest, p + 1, Len(rest))

\* column = random.choice(valid_locations) is kept symbolic: the value Random
\* stands for "any element of valid_locations".  The stored or returned column
\* never feeds a later computation (callers inside minimax read only [1], the
\* score), so the choice is resolved where a caller observes the column, by
\* ColumnOutcomes.
Random == -2

random_choice(locs) == Random

ColumnOutcomes(col, b) ==
    IF col = Random THEN {c \in 0..(COLS - 1) : is_valid(b, c)} ELSE {col}

\* Faulty variant of copy_board: temp_board = board, the same object
copy_board_Alias(heap, ref) == [heap |-> heap, ref |-> ref]

\* temp_board = [r[:] for r in board]: a new list object holding the same cells.
\* heap is the list of live board objects; a board is named by its position.
copy_board(heap, ref) == [heap |-> Append(heap, heap[ref]), ref |-> Len(heap) + 1]

\* Ghost bookkeeping threaded through a search, beside the objects the code
\* owns (heap: the board objects, tt: transposition_table):
\*   who[key]  the (board, depth, maximizingPlayer) of the call that stored key
\*   hits      number of calls answered from the table
\*   hitSame   every hit so far was answered from an entry of the same node
\*   colOK     every call so far returned a column of the shape its node requires
\*   gravOK    every temp_board built so far is gravity-filled
\*   frameOK   no call so far found its own board changed after exploring a child
Gravity(b) ==
    \A c \in 0..(COLS - 1) : \A r \in 0..(ROWS - 2) :
        b[Idx(r, c)] # EMPTY => b[Idx(r + 1, c)] # EMPTY

EmptyTT == << >>

NoGhost ==
    [who |-> << >>, hits |-> 0, hitSame |-> TRUE, colOK |-> TRUE, gravOK |-> TRUE,
     frameOK |-> TRUE]

ColumnShapeOK(col, b, depth) ==
    \A c \in ColumnOutcomes(col, b) :
        IF depth = 0 \/ is_terminal(b) THEN c = None ELSE is_valid(b, c)

\* Faulty variant of MakeChild: the opponent's piece is placed on temp_board
MakeChild_OtherPiece(m, ref, col, piece) ==
    LET row == get_next_open_row(m.heap[ref], col)
        cp == copy_board(m.heap, ref)
        placed == [cp.heap EXCEPT ![cp.ref] =
                       set_piece(@, row, col, IF piece = AI THEN PLAYER ELSE AI)]
    IN  [ref |-> cp.ref,
         m |-> [m EXCEPT !.heap = placed,
                         !.g.gravOK = @ /\ Gravity(placed[cp.ref])]]

\* lines 224-226 / 241-243: row = get_next_open_row(board, col); temp_board =
\* [r[:] for r in board]; set_piece(temp_board, row, col, piece).  Returns the
\* machine with the new object and the reference of temp_board.
MakeChild(m, ref, col, piece) ==
    LET row == get_next_open_row(m.heap[ref], col)
        cp == copy_board(m.heap, ref)
        placed == [cp.heap EXCEPT ![cp.ref] = set_piece(@, row, col, piece)]
    IN  [ref |-> cp.ref,
         m |-> [m EXCEPT !.heap = placed,
                         !.g.gravOK = @ /\ Gravity(placed[cp.ref])]]

\* The recursive call has returned: temp_board is dropped.  Ghost: the caller's
\* own board is compared with what it was before the child was explored.
DropChild(after, before, ref) ==
    [after EXCEPT !.heap = SubSeq(@, 1, Len(before.heap)),
                  !.g.frameOK = @ /\ after.heap[ref] = before.heap[ref]]

\* Faulty variant of MaxStep: new_score >= value, so that an equal score
\* replaces the column picked so far
MaxStep_NonStrict(acc, col, new_score, m) ==
    LET value == IF new_score >= acc.value THEN new_score ELSE acc.value
        column == IF new_score >= acc.value THEN col ELSE acc.column
        alpha == Max(acc.alpha, value)
    IN  [value |-> value, column |-> column, alpha |-> alpha, beta |-> acc.beta,
         m |-> m, done |-> (alpha >= acc.beta)]

\* lines 228-233: the maximizing side takes the child's score into account.
\* acc holds the loop's variables; done is set by the break.
MaxStep(acc, col, new_score, m) ==
    LET value == IF new_score > acc.value THEN new_score ELSE acc.value
        column == IF new_score > acc.value THEN col ELSE acc.column
        alpha == Max(acc.alpha, value)
    IN  [value |-> value, column |-> column, alpha |-> alpha, beta |-> acc.beta,
         m |-> m, done |-> (alpha >= acc.beta)]

\* lines 245-250: the minimizing side
MinStep(acc, col, new_score, m) ==
    LET value == IF new_score < acc.value THEN new_score ELSE acc.value
        column == IF new_score < acc.value THEN col ELSE acc.column
        beta == Min(acc.beta, value)
    IN  [value |-> value, column |-> column, alpha |-> acc.alpha, beta |-> beta,
         m |-> m, done |-> (acc.alpha >= beta)]

\* Ghost: what a finished call adds to the bookkeeping
Returned(res, b, depth) ==
    [res EXCEPT !.m.g.colOK = @ /\ ColumnShapeOK(res.col, b, depth)]

\* lines 202-203: the call is answered from the table
Cached(m, b, depth, maximizingPlayer, board_hash) ==
    [col |-> m.tt[board_hash][1], score |-> m.tt[board_hash][2],
     m |-> [m EXCEPT !.g.hits = @ + 1,
                     !.g.hitSame = @ /\ m.g.who[board_hash] = <<b, depth, maximizingPlayer>>]]

\* Faulty variant of Leaf: a finished game always scores 0
Leaf_DrawOnly(m, b) ==
    [col |-> None,
     score |-> IF is_terminal(b) THEN 0 ELSE score_position(b, AI),
     m |-> m]

\* lines 209-218: the value of a finished game or of a depth-0 node
Leaf(m, b) ==
    [col |-> None,
     score |-> IF is_terminal(b)
               THEN IF winning_move(b, AI) THEN Inf
                    ELSE IF winning_move(b, PLAYER) THEN -Inf
                    ELSE 0
               ELSE score_position(b, AI),
     m |-> m]

\* lines 234-235 / 251-252: transposition_table[board_hash] = (column, value)
Store(end, b, depth, maximizingPlayer, board_hash) ==
    [col |-> end.column, score |-> end.value,
     m |-> [end.m EXCEPT !.tt = (board_hash :> <<end.column, end.value>>) @@ @,
                         !.g.who = (board_hash :> <<b, depth, maximizingPlayer>>) @@ @]]

\* Faulty variant of LoopStart: column = None instead of a random valid column
LoopStart_NoFallback(m, locs, alpha, beta, maximizingPlayer) ==
    [value |-> IF maximizingPlayer THEN -Inf ELSE Inf,
     column |-> None,
     alpha |-> alpha, beta |-> beta, m |-> m, done |-> FALSE]

\* lines 221-222 / 238-239: the loop's variables before its first iteration
LoopStart(m, locs, alpha, beta, maximizingPlayer) ==
    [value |-> IF maximizingPlayer THEN -Inf ELSE Inf,
     column |-> random_choice(locs),
     alpha |-> alpha, beta |-> beta, m |-> m, done |-> FALSE]

\* lines 201-252.  m is the machine the call runs on: heap (the board objects),
\* tt (transposition_table) and g (ghost); ref names the board passed in.
RECURSIVE minimax(_, _, _, _, _, _)
minimax(m, ref, depth, alpha, beta, maximizingPlayer) ==
    LET b == m.heap[ref]
        board_hash == hash_board(b, depth)
        valid_locations == SortCenter(get_valid_locations(b))
        piece == IF maximizingPlayer THEN AI ELSE PLAYER
        \* the loop's variables after its i-th iteration
        Loop[i \in 0..Len(valid_locations)] ==
            IF i = 0 THEN LoopStart(m, valid_locations, alpha, beta, maximizingPlayer)
            ELSE LET acc == Loop[i - 1]
                     col == valid_locations[i]
                     ch == MakeChild(acc.m, ref, col, piece)
                     r == minimax(ch.m, ch.ref, depth - 1, acc.alpha, acc.beta,
                                  ~maximizingPlayer)
                 IN  IF acc.done THEN acc
                     ELSE IF maximizingPlayer
                          THEN MaxStep(acc, col, r.score, DropChild(r.m, acc.m, ref))
                          ELSE MinStep(acc, col, r.score, DropChild(r.m, acc.m, ref))
    IN  Returned(IF board_hash \in DOMAIN m.tt
                 THEN Cached(m, b, depth, maximizingPlayer, board_hash)
                 ELSE IF depth = 0 \/ is_terminal(b) THEN Leaf(m, b)
                 ELSE Store(Loop[Len(valid_locations)], b, depth, maximizingPlayer, board_hash),
                 b, depth)

\* A top-level call by a caller that owns the board b and sees the table tt
Call(b, depth, alpha, beta, maximizingPlayer, table, ghost) ==
    minimax([heap |-> <<b>>, tt |-> table, g |-> ghost], 1, depth, alpha, beta, maximizingPlayer)

\* Depth-limited minimax with no pruning and no table (the reference of the
\* search: same terminal scores and the same leaf value)
RECURSIVE PlainMinimax(_, _, _)
PlainMinimax(b, depth, maximizingPlayer) ==
    IF is_terminal(b)
    THEN IF winning_move(b, AI) THEN Inf
         ELSE IF winning_move(b, PLAYER) THEN -Inf ELSE 0
    ELSE IF depth = 0 THEN score_position(b, AI)
    ELSE LET locs == get_valid_locations(b)
             child(c) == PlainMinimax(set_piece(b, get_next_open_row(b, c), c,
                                                IF maximizingPlayer THEN AI ELSE PLAYER),
                                      depth - 1, ~maximizingPlayer)
             F[i \in 0..Len(locs)] ==
                 IF i = 0 THEN (IF maximizingPlayer THEN -Inf ELSE Inf)
                 ELSE IF maximizingPlayer THEN Max(F[i - 1], child(locs[i]))
                      ELSE Min(F[i - 1], child(locs[i]))
         IN  F[Len(locs)]

\* The board after the legal moves of a script, first to move given
RECURSIVE Replay(_, _)
Replay(moves, first) ==
    IF Len(moves) = 0 THEN EmptyBoard
    ELSE LET prev == Replay(SubSeq(moves, 1, Len(moves) - 1), first)
             col == moves[Len(moves)]
             other == IF first = AI THEN PLAYER ELSE AI
             piece == IF Len(moves) % 2 = 1 THEN first ELSE other
         IN  set_piece(prev, get_next_open_row(prev, col), col, piece)

\* ---------------------------------------------------------------- bounds
\* deepest search the AI side is asked for (play_game(depth), benchmark_speed)
MaxDepth == 4
\* a search is run only where len(valid_locations) ** depth is at most MaxNodes
MaxNodes == 350
\* top-level searches per game
MaxSearches == 2

\* depth of get_ai_move's search and of optimal_player_move's search
AI_DEPTH == 7
OPT_DEPTH == 3

\* The columns that reach the board from outside the engine (human input, the
\* random player, any caller of set_piece) are drawn from these move lists:
\* each is a sequence of legal moves from the empty board, the two sides
\* alternating, with no four-in-a-row before its last move.
ScriptA ==
    <<0, 2, 6, 0, 1, 2, 2, 5, 5, 4, 1, 2, 2, 1, 1, 5, 2, 1, 4, 4, 5, 5, 5, 1, 3, 6, 6, 6>>

Scripts ==
    { [first |-> AI,     moves |-> ScriptA \o <<6, 0, 3, 4, 0, 4, 6, 0, 3, 3, 3, 0, 3, 4>>],
      [first |-> AI,     moves |-> ScriptA \o <<0, 0, 4, 4, 0, 0, 4, 3, 6, 6, 3, 3, 3, 3>>],
      [first |-> AI,     moves |-> <<0, 0, 1, 1, 2, 2, 4, 4, 3>>],
      [first |-> PLAYER, moves |-> <<3, 3, 2, 2, 4, 1, 5>>] }

RECURSIVE Power(_, _)
Power(a, k) == IF k = 0 THEN 1 ELSE a * Power(a, k - 1)

Affordable(b, depth) == Power(Len(get_valid_locations(b)), depth) <= MaxNodes

Pieces(b) == Cardinality({i \in 1..(ROWS * COLS) : b[i] # EMPTY})

\* lines 254-264.  searched tells whether minimax was invoked.
BookMove(b, book, m0) ==
    [col |-> OPENING_BOOK[CHOOSE j \in book : \A q \in book : j <= q],
     score |-> 0, m |-> m0, searched |-> FALSE]

Searched(r) == [col |-> r.col, score |-> r.score, m |-> r.m, searched |-> TRUE]

BookColumns(b) == {j \in 1..Len(OPENING_BOOK) : is_valid(b, OPENING_BOOK[j])}

\* Faulty variant of get_ai_move: the opening book consulted on every board
get_ai_move_AlwaysBook(b, table, ghost) ==
    IF BookColumns(b) # {}
    THEN BookMove(b, BookColumns(b), [heap |-> <<b>>, tt |-> table, g |-> ghost])
    ELSE Searched(Call(b, AI_DEPTH, -Inf, Inf, TRUE, table, ghost))

get_ai_move(b, table, ghost) ==
    IF Pieces(b) < 2 /\ BookColumns(b) # {}
    THEN BookMove(b, BookColumns(b), [heap |-> <<b>>, tt |-> table, g |-> ghost])
    ELSE Searched(Call(b, AI_DEPTH, -Inf, Inf, TRUE, table, ghost))

\* ----------------------------------------------------------------- state
VARIABLES
    board,      \* the caller's board (cells)
    tt,         \* transposition_table
    ghost,      \* bookkeeping of the searches of this game (see NoGhost)
    first,      \* who moves first in this game
    hist,       \* columns played so far in this game
    nsearch,    \* top-level searches made in this game
    res         \* what the last top-level call was given and what it returned

vars == <<board, tt, ghost, first, hist, nsearch, res>>

Other(p) == IF p = AI THEN PLAYER ELSE AI

Mover == IF Len(hist) % 2 = 0 THEN first ELSE Other(first)

NoRes ==
    [kind |-> "none", board |-> EmptyBoard, after |-> EmptyBoard, depth |-> 0,
     alpha |-> -Inf, beta |-> Inf, maxp |-> TRUE,
     col |-> None, col1 |-> None, col2 |-> None, score |-> 0,
     tt0 |-> EmptyTT, g0 |-> NoGhost, hits |-> 0, searched |-> FALSE]

\* create_board(): a new board, the table cleared
Init ==
    /\ board = EmptyBoard
    /\ tt = EmptyTT
    /\ ghost = NoGhost
    /\ first \in {AI, PLAYER}
    /\ hist = << >>
    /\ nsearch = 0
    /\ res = NoRes

NewGame ==
    /\ hist # << >>
    /\ board' = EmptyBoard
    /\ tt' = EmptyTT
    /\ ghost' = NoGhost
    /\ first' \in {AI, PLAYER}
    /\ hist' = << >>
    /\ nsearch' = 0
    /\ res' = NoRes

\* One turn of a game loop whose column comes from outside the engine
\* (connect4.play_game lines 282-285, benchmark.play_game lines 66-67 with
\* random_player_move): is_valid, get_next_open_row, set_piece.  Once the
\* engine has searched in this game, the AI's own pieces come from its searches.
Place ==
    /\ ~is_terminal(board)
    /\ Mover = AI => nsearch = 0
    /\ \E s \in Scripts :
         /\ s.first = first
         /\ Len(hist) < Len(s.moves)
         /\ SubSeq(s.moves, 1, Len(hist)) = hist
         /\ LET col == s.moves[Len(hist) + 1]
            IN  /\ is_valid(board, col)
                /\ board' = set_piece(board, get_next_open_row(board, col), col, Mover)
                /\ hist' = Append(hist, col)
    /\ UNCHANGED <<tt, ghost, first, nsearch, res>>

\* The caller's view of a finished top-level call r: the board object it
\* passed, the table and the ghost are as the call left them; res records what
\* was passed (tt0, g0: the table and the ghost the call started with) and what
\* came back (c1: the column returned, c2: the column a second run of the same
\* call would return)
Finish(kind, r, depth, alpha, beta, maxp, searched) ==
    /\ \E c1 \in ColumnOutcomes(r.col, board) :
         \E c2 \in (IF kind = "minimax" /\ tt = EmptyTT
                    THEN ColumnOutcomes(r.col, board) ELSE {c1}) :
            res' = [kind |-> kind, board |-> board, after |-> r.m.heap[1],
                    depth |-> depth, alpha |-> alpha, beta |-> beta, maxp |-> maxp,
                    col |-> r.col, col1 |-> c1, col2 |-> c2, score |-> r.score,
                    tt0 |-> tt, g0 |-> ghost,
                    hits |-> r.m.g.hits - ghost.hits, searched |-> searched]
    /\ board' = r.m.heap[1]
    /\ tt' = r.m.tt
    /\ ghost' = r.m.g

\* depths a caller asks for: any depth for the AI side (play_game(depth),
\* benchmark_speed's range(1, max_depth + 1)), 3 for optimal_player_move
SearchDepths == IF Mover = AI THEN 1..MaxDepth ELSE {OPT_DEPTH}

\* A top-level search for the side to move, window (-inf, +inf):
\* benchmark.play_game line 54 and benchmark_speed line 11 (AI, True),
\* optimal_player_move line 34 (PLAYER, depth 3, False).
Search ==
    /\ ~is_terminal(board)
    /\ nsearch < MaxSearches
    /\ \E d \in SearchDepths :
         /\ Affordable(board, d)
         /\ Finish("minimax", Call(board, d, -Inf, Inf, Mover = AI, tt, ghost),
                   d, -Inf, Inf, Mover = AI, TRUE)
    /\ nsearch' = nsearch + 1
    /\ UNCHANGED <<first, hist>>

FinishAIMove(r) == Finish("get_ai_move", r, AI_DEPTH, -Inf, Inf, TRUE, r.searched)

\* connect4.play_game line 301: col = get_ai_move(board)
GetAIMove ==
    /\ ~is_terminal(board)
    /\ Mover = AI
    /\ nsearch < MaxSearches
    /\ Pieces(board) >= 2 => Affordable(board, AI_DEPTH)
    /\ FinishAIMove(get_ai_move(board, tt, ghost))
    /\ nsearch' = nsearch + 1
    /\ UNCHANGED <<first, hist>>

\* The caller plays the column the search returned (connect4.play_game lines
\* 302-304, benchmark.play_game lines 55-56 and 35, 67)
PlayReturned ==
    /\ res.kind \in {"minimax", "get_ai_move"}
    /\ res.board = board
    /\ is_valid(board, res.col1)
    /\ board' = set_piece(board, get_next_open_row(board, res.col1), res.col1, Mover)
    /\ hist' = Append(hist, res.col1)
    /\ UNCHANGED <<tt, ghost, first, nsearch, res>>

\* minimax called on a finished game's board, with any depth, window and side
\* (the call a parent's loop makes on the child that ends the game)
ProbeValues == {-Inf, 0, Inf}

TerminalProbe ==
    /\ is_terminal(board)
    /\ res.board # board
    /\ \E depth \in 0..MaxDepth, alpha \in ProbeValues, beta \in ProbeValues, maxp \in BOOLEAN :
         Finish("probe", Call(board, depth, alpha, beta, maxp, tt, ghost),
                depth, alpha, beta, maxp, TRUE)
    /\ UNCHANGED <<first, hist, nsearch>>

Next == NewGame \/ Place \/ Search \/ GetAIMove \/ PlayReturned \/ TerminalProbe

Spec == Init /\ [][Next]_vars

\* ------------------------------------------------------------------ claims

\* C1: for a non-terminal board reached by legal play, a depth >= 1 and either
\* side, the score minimax(board, depth, -inf, +inf, maximizing) returns when
\* started with an empty transposition table equals the score of the plain
\* depth-limited minimax (no pruning, no table) of the same board, depth and side.
C1_ScoreEqualsPlainMinimax ==
    (res.kind = "minimax" /\ res.tt0 = EmptyTT /\ board = res.board)
        => res.score = PlainMinimax(res.board, res.depth, res.maxp)

\* C2 as stated: two calls minimax(board, depth, -inf, +inf, True), each started
\* with an empty table, return the same (column, score), and the column picked
\* by random.choice before the loop is never the one returned.
C2_SameColumnTwice ==
    (res.kind = "minimax" /\ res.tt0 = EmptyTT /\ res.maxp)
        => res.col1 = res.col2 /\ res.col # Random

\* C2 amended: for a call started with an empty table, the random.choice column
\* is the one returned exactly when the returned score is the loop's initial
\* value (-inf for the maximizing side, +inf for the minimizing side: no child
\* improved it strictly); otherwise two calls return the same column; the
\* column returned is valid in every case.
C2_FallbackExactlyWhenNoChildImproves ==
    (res.kind = "minimax" /\ res.tt0 = EmptyTT) =>
        /\ (res.col = Random) <=> (res.score = IF res.maxp THEN -Inf ELSE Inf)
        /\ res.col # Random => res.col1 = res.col /\ res.col2 = res.col
        /\ is_valid(res.board, res.col1)
        /\ is_valid(res.board, res.col2)

C2_FallbackReturned ==
    /\ res.kind = "minimax" /\ res.tt0 = EmptyTT /\ res.maxp
    /\ res.col = Random
    /\ res.col1 # res.col2

\* C3: every call of minimax, computed or answered from the table, returns
\* column None when its board is terminal or its depth is 0, and otherwise a
\* column that is valid on the board it was given; get_ai_move on a
\* non-terminal board returns a valid column, never None.
C3_ColumnShape ==
    /\ ghost.colOK
    /\ res.kind = "get_ai_move" => res.col1 # None /\ is_valid(res.board, res.col1)

C3_SearchedWithHits ==
    res.kind = "get_ai_move" /\ res.searched /\ res.hits > 0 /\ res.tt0 # EmptyTT

\* C4 as stated: on a board with no valid column, is_terminal holds and minimax
\* returns (None, 0) for every depth, window and side.
C4_FullBoardScoresZero ==
    (res.kind = "probe" /\ Len(get_valid_locations(res.board)) = 0)
        => is_terminal(res.board) /\ res.col = None /\ res.score = 0

\* C4 amended: on a board with no valid column, is_terminal holds and minimax
\* returns column None with score +inf if the AI has four in a row, else -inf
\* if the player has four in a row, else 0, for every depth, window and side.
C4_FullBoardTerminalScore ==
    (res.kind = "probe" /\ Len(get_valid_locations(res.board)) = 0) =>
        /\ is_terminal(res.board)
        /\ res.col = None
        /\ res.score = IF winning_move(res.board, AI) THEN Inf
                       ELSE IF winning_move(res.board, PLAYER) THEN -Inf
                       ELSE 0

C4_FullBoardWithFour ==
    /\ res.kind = "probe" /\ Len(get_valid_locations(res.board)) = 0
    /\ res.depth > 0
    /\ res.score = -Inf

\* C5: on a non-terminal board where the AI holds the bottom cells of columns
\* 0, 1 and 2 and the bottom cell of column 3 is empty, a maximizing search of
\* depth >= 1 with window (-inf, +inf) returns (3, +inf), whether the table is
\* empty or holds what earlier searches of the game left.
C5_WinningColumn ==
    (/\ res.kind \in {"minimax", "get_ai_move"} /\ res.searched /\ res.maxp
     /\ ~is_terminal(res.board)
     /\ res.board[Idx(ROWS - 1, 0)] = AI /\ res.board[Idx(ROWS - 1, 1)] = AI
     /\ res.board[Idx(ROWS - 1, 2)] = AI /\ res.board[Idx(ROWS - 1, 3)] = EMPTY)
        => res.col = 3 /\ res.score = Inf

C5_WinFoundOnUsedTable ==
    /\ res.kind = "minimax" /\ res.maxp /\ res.tt0 # EmptyTT
    /\ res.board[Idx(ROWS - 1, 0)] = AI /\ res.board[Idx(ROWS - 1, 1)] = AI
    /\ res.board[Idx(ROWS - 1, 2)] = AI /\ res.board[Idx(ROWS - 1, 3)] = EMPTY
    /\ res.col = 3 /\ res.score = Inf

\* C6: get_ai_move on a board of fewer than 2 pieces returns the first valid
\* column of the opening book (3 on the empty board) without calling minimax,
\* the table and the board left as they were; on a board of 2 or more pieces
\* it returns the column of minimax(board, 7, -inf, +inf, True).
C6_BookOrSearch ==
    res.kind = "get_ai_move" =>
        IF Pieces(res.board) < 2
        THEN /\ \E j \in 1..Len(OPENING_BOOK) :
                   /\ res.col = OPENING_BOOK[j]
                   /\ is_valid(res.board, OPENING_BOOK[j])
                   /\ \A q \in 1..(j - 1) : ~is_valid(res.board, OPENING_BOOK[q])
             /\ res.board = EmptyBoard => res.col = 3
             /\ ~res.searched
             /\ tt = res.tt0
             /\ res.after = res.board
        ELSE /\ res.searched
             /\ res.depth = 7
             /\ res.col = Call(res.board, 7, -Inf, Inf, TRUE, res.tt0, res.g0).col

C6_BookMoveOnUsedTable ==
    res.kind = "get_ai_move" /\ ~res.searched /\ res.tt0 # EmptyTT /\ res.col = 3

C8_StoredScoreIsExact ==
    \A k \in DOMAIN tt :
        tt[k][2] = Call(ghost.who[k][1], ghost.who[k][2], -Inf, Inf, ghost.who[k][3],
                        EmptyTT, NoGhost).score

\* C9: within one game every call answered from the table is answered from an
\* entry that a call with the same board, the same depth and the same
\* maximizing flag stored (so no key is shared by two nodes that are looked up).
C9_HitsFromSameNode == ghost.hitSame

C9_HitAcrossSearches ==
    res.kind = "minimax" /\ ~res.maxp /\ res.tt0 # EmptyTT /\ res.hits > 0

\* C10: after a call of minimax the caller's board holds what it held before,
\* and no call finds its own board changed after a child has been explored.
C10_BoardUntouched ==
    /\ res.kind # "none" => res.after = res.board
    /\ ghost.frameOK

C10_DeepSearchReturned ==
    res.kind = "minimax" /\ res.depth >= 3 /\ Cardinality(DOMAIN tt) > 3

====
